---- MODULE Spec2Model ----
(***************************************************************************)
(* Model of src/emu.py: the CPU (fetch/decode/execute over a 64 KiB byte   *)
(* array), and the SNESEmulator frame scheduler (start, stop, reset, the   *)
(* run_frame timer callback).                                              *)
(*                                                                         *)
(* The bytearray memory is represented sparsely: a function whose domain   *)
(* is the set of addresses holding a non-zero byte; every other address of *)
(* 0 .. MemSize-1 reads 0, as in a fresh bytearray(0x10000).  The          *)
(* representation is canonical (a cell that becomes 0 leaves the domain),  *)
(* so equality of two memories is equality of their contents.              *)
(*                                                                         *)
(* A Python IndexError (memory[PC] with PC = 0x10000) is modelled by the   *)
(* field "raised" of every result: the statements executed before the      *)
(* raise keep their effect, the rest of the call chain is skipped.         *)
(***************************************************************************)
EXTENDS Integers, Sequences, FiniteSets, TLC

VARIABLES
    cpu,        \* the CPU object held by SNESEmulator.cpu (or under test)
    running,    \* SNESEmulator.running
    pending,    \* number of run_frame callbacks scheduled by root.after
    last,       \* what the last operation did (history, for the properties)
    ppu         \* the PPU object held by SNESEmulator.ppu: vram and palette

vars == <<cpu, running, pending, last, ppu>>

----------------------------------------------------------------------------
(* Program constants *)

MemSize == 65536
BootPC == 32768
StackTop == 511
ResetVector == 65532
TargetCycles == 1364

OP_LDA_IMM == 169
OP_LDA_ABS == 173
OP_STA_ABS == 141
OP_JMP_ABS == 76
OP_NOP == 234
OP_BRK == 0

FLAG_Z == 2
FLAG_N == 128
FLAG_CLEAR_MASK == 125

(* The keys of CPU.opcodes *)
Opcodes == {OP_LDA_IMM, OP_LDA_ABS, OP_STA_ABS, OP_JMP_ABS, OP_NOP, OP_BRK}

----------------------------------------------------------------------------
(* Python's integer operators on non-negative integers *)

RECURSIVE BitAnd(_, _)
BitAnd(x, y) ==
    IF x = 0 \/ y = 0 THEN 0
    ELSE (x % 2) * (y % 2) + 2 * BitAnd(x \div 2, y \div 2)

RECURSIVE BitOr(_, _)
BitOr(x, y) ==
    IF x = 0 THEN y
    ELSE IF y = 0 THEN x
    ELSE (IF x % 2 = 1 \/ y % 2 = 1 THEN 1 ELSE 0) + 2 * BitOr(x \div 2, y \div 2)

Shl(x, n) == x * (2 ^ n)
Shr(x, n) == x \div (2 ^ n)

----------------------------------------------------------------------------
(* Evaluation order.  Python evaluates an expression once and names its
   value; With(v, F) is F applied to the value of v, computed once. *)
With(v, F(_)) == CHOOSE r \in {F(x) : x \in {v}} : TRUE

----------------------------------------------------------------------------
(* The bytearray: memory[address], memory[address] = value *)

(* A bytearray of MemSize bytes takes the indices -MemSize .. MemSize - 1;
   a negative index counts from the end *)
MemInRange(a) == a >= -MemSize /\ a < MemSize

MemIndex(a) == IF a < 0 THEN a + MemSize ELSE a

MemGet(m, a) == IF a \in DOMAIN m THEN m[a] ELSE 0

MemSet(m, a, v) ==
    IF v = 0
    THEN [x \in (DOMAIN m) \ {a} |-> m[x]]
    ELSE [x \in (DOMAIN m) \cup {a} |-> IF x = a THEN v ELSE m[x]]

EmptyMemory == [x \in {} |-> 0]

----------------------------------------------------------------------------
(* class PPU.  vram is the bytearray(0x8000), kept like the CPU memory as
   the function of its non-zero cells; palette is the list of colours,
   indexed from 0 as in the code.  The canvas is written by render_frame
   and render_tile only, which erase it and repaint it from vram and
   palette: the items they create are what the operators below return. *)

VramSize == 32768
PaletteSize == 256
ScreenCols == 32
ScreenRows == 28
TileRows == 8
TileCols == 8
TileBytes == 16

Black == <<0, 0, 0>>
Red == <<255, 0, 0>>
Green == <<0, 255, 0>>
Blue == <<0, 0, 255>>

NewPPU ==
    [vram |-> EmptyMemory, palette |-> [i \in 0 .. (PaletteSize - 1) |-> Black]]

(* Python's indexing of the bytearray and of the list: the indices
   -len .. len - 1 are accepted, a negative one counts from the end *)
VramInRange(a) == a >= -VramSize /\ a < VramSize

VramIndex(a) == IF a < 0 THEN a + VramSize ELSE a

PaletteLen(p) == Cardinality(DOMAIN p.palette)

PaletteInRange(p, i) == i >= -PaletteLen(p) /\ i < PaletteLen(p)

PaletteAt(p, i) == p.palette[IF i < 0 THEN i + PaletteLen(p) ELSE i]

(* ((plane1 >> bit) & 1) << 1 | ((plane0 >> bit) & 1) *)
color_idx(plane0, plane1, bit) ==
    BitOr(Shl(BitAnd(Shr(plane1, bit), 1), 1), BitAnd(Shr(plane0, bit), 1))

(* What a part of the rendering did: the canvas items created, as
   <<x, y, colour>> (each a rectangle from (x, y) to (x + 1, y + 1)), the
   vram indices read, the palette indices looked up, whether an index was
   out of range (IndexError). *)
Painted(pixels, reads, lookups, raised) ==
    [pixels |-> pixels, reads |-> reads, lookups |-> lookups, raised |-> raised]

(* "for tx in range(8)" on the plane bytes of one row: the columns whose
   colour index is not 0 are painted left to right with
   palette[color_idx + shift] (shift is 0 in the code), until a palette
   index is out of range. *)
PaintRow(p, x, y, ty, tile_addr, plane0, plane1, shift) ==
    With([tx \in 0 .. (TileCols - 1) |-> color_idx(plane0, plane1, 7 - tx)], LAMBDA idx :
        LET painted == {tx \in DOMAIN idx : idx[tx] > 0}
            bad == {tx \in painted : ~PaletteInRange(p, idx[tx] + shift)}
            done == {tx \in painted : \A b \in bad : tx < b}
            tried == {tx \in painted : \A b \in bad : tx <= b}
        IN  Painted({<<x + tx, y + ty, PaletteAt(p, idx[tx] + shift)>> : tx \in done},
                    {tile_addr, tile_addr + 1},
                    {idx[tx] + shift : tx \in tried},
                    bad # {}))

(* Mutant: the two bit planes are taken in the other order *)
tile_row_PlanesSwapped(p, x, y, ty, tile_addr) ==
    IF ~VramInRange(tile_addr) THEN Painted({}, {tile_addr}, {}, TRUE)
    ELSE IF ~VramInRange(tile_addr + 1)
    THEN Painted({}, {tile_addr, tile_addr + 1}, {}, TRUE)
    ELSE PaintRow(p, x, y, ty, tile_addr,
                  MemGet(p.vram, VramIndex(tile_addr + 1)), MemGet(p.vram, VramIndex(tile_addr)), 0)

(* Mutant: the palette is indexed with color_idx + 1 *)
tile_row_PaletteOffByOne(p, x, y, ty, tile_addr) ==
    IF ~VramInRange(tile_addr) THEN Painted({}, {tile_addr}, {}, TRUE)
    ELSE IF ~VramInRange(tile_addr + 1)
    THEN Painted({}, {tile_addr, tile_addr + 1}, {}, TRUE)
    ELSE PaintRow(p, x, y, ty, tile_addr,
                  MemGet(p.vram, VramIndex(tile_addr)), MemGet(p.vram, VramIndex(tile_addr + 1)), 1)

(* One pass of "for ty in range(8)":
       plane0 = self.vram[tile_addr]
       plane1 = self.vram[tile_addr + 1]
   and the loop over the columns *)
tile_row(p, x, y, ty, tile_addr) ==
    IF ~VramInRange(tile_addr) THEN Painted({}, {tile_addr}, {}, TRUE)
    ELSE IF ~VramInRange(tile_addr + 1)
    THEN Painted({}, {tile_addr, tile_addr + 1}, {}, TRUE)
    ELSE PaintRow(p, x, y, ty, tile_addr,
                  MemGet(p.vram, VramIndex(tile_addr)), MemGet(p.vram, VramIndex(tile_addr + 1)), 0)

(* render_tile: tile_addr starts at tile_idx * 16 and moves on by 2 per
   row; the rows are done top to bottom until one raises. *)
render_tile(p, x, y, tile_idx) ==
    With([ty \in 0 .. (TileRows - 1) |->
              tile_row(p, x, y, ty, tile_idx * TileBytes + 2 * ty)], LAMBDA row :
        LET failed == {ty \in DOMAIN row : row[ty].raised}
            ran == {ty \in DOMAIN row : \A f \in failed : ty <= f}
        IN  Painted(UNION {row[ty].pixels : ty \in ran},
                    UNION {row[ty].reads : ty \in ran},
                    UNION {row[ty].lookups : ty \in ran},
                    failed # {}))

(* The body of the loops of render_frame for the cell in row y, column x:
       tile_idx = self.vram[y * 32 + x]
       self.render_tile(x * 8, y * 8, tile_idx) *)
render_cell(p, y, x) ==
    With(y * ScreenCols + x, LAMBDA a :
        IF ~VramInRange(a)
        THEN [cell |-> <<y, x>>, mapRead |-> a, tile_idx |-> 0,
              tile |-> Painted({}, {}, {}, TRUE)]
        ELSE With(MemGet(p.vram, VramIndex(a)), LAMBDA tile_idx :
                 [cell |-> <<y, x>>, mapRead |-> a, tile_idx |-> tile_idx,
                  tile |-> render_tile(p, x * TileCols, y * TileRows, tile_idx)]))

----------------------------------------------------------------------------
(* class CPU *)

NewCPU ==
    [registers |-> [A |-> 0, X |-> 0, Y |-> 0, PC |-> BootPC, SP |-> StackTop, P |-> 0],
     memory |-> EmptyMemory,
     clock_cycles |-> 0,
     running |-> TRUE]

SetReg(c, r, v) == [c EXCEPT !.registers[r] = v]

(* Results of calls: the CPU afterwards, the value returned, whether the
   call raised IndexError. *)
Ret(c, v) == [cpu |-> c, value |-> v, raised |-> FALSE]
Raise(c) == [cpu |-> c, value |-> 0, raised |-> TRUE]

read_byte(c, address) ==
    IF MemInRange(address) THEN Ret(c, MemGet(c.memory, MemIndex(address))) ELSE Raise(c)

(* Mutant: the word is read high byte first *)
read_word_BigEndian(c, address) ==
    IF ~MemInRange(address) \/ ~MemInRange(address + 1) THEN Raise(c)
    ELSE LET hi == MemGet(c.memory, MemIndex(address))
             lo == MemGet(c.memory, MemIndex(address + 1))
         IN  Ret(c, BitOr(Shl(hi, 8), lo))

read_word(c, address) ==
    IF ~MemInRange(address) \/ ~MemInRange(address + 1) THEN Raise(c)
    ELSE LET lo == MemGet(c.memory, MemIndex(address))
             hi == MemGet(c.memory, MemIndex(address + 1))
         IN  Ret(c, BitOr(Shl(hi, 8), lo))

write_byte(c, address, value) ==
    IF MemInRange(address)
    THEN Ret([c EXCEPT !.memory = MemSet(c.memory, MemIndex(address), BitAnd(value, 255))], 0)
    ELSE Raise(c)

write_word(c, address, value) ==
    With(write_byte(c, address, value), LAMBDA r1 :
        IF r1.raised THEN r1
        ELSE write_byte(r1.cpu, address + 1, Shr(value, 8)))

reset(c) ==
    With(read_word(c, ResetVector), LAMBDA w :
        IF w.raised THEN w ELSE Ret(SetReg(c, "PC", w.value), 0))

fetch_byte(c) ==
    IF MemInRange(c.registers.PC)
    THEN Ret(SetReg(c, "PC", c.registers.PC + 1), MemGet(c.memory, MemIndex(c.registers.PC)))
    ELSE Raise(c)

(* Mutant: the Z and N bits are not cleared before they are recomputed *)
update_flags_NoClear(c, value) ==
    LET p0 == c.registers.P
        p1 == IF value = 0 THEN BitOr(p0, FLAG_Z) ELSE p0
        p2 == IF BitAnd(value, FLAG_N) # 0 THEN BitOr(p1, FLAG_N) ELSE p1
    IN  SetReg(c, "P", p2)

update_flags(c, value) ==
    LET p0 == BitAnd(c.registers.P, FLAG_CLEAR_MASK)
        p1 == IF value = 0 THEN BitOr(p0, FLAG_Z) ELSE p0
        p2 == IF BitAnd(value, FLAG_N) # 0 THEN BitOr(p1, FLAG_N) ELSE p1
    IN  SetReg(c, "P", p2)

(* addr = self.fetch_byte() | (self.fetch_byte() << 8) *)
fetch_addr(c) ==
    With(fetch_byte(c), LAMBDA f1 :
        IF f1.raised THEN f1
        ELSE With(fetch_byte(f1.cpu), LAMBDA f2 :
            IF f2.raised THEN f2
            ELSE Ret(f2.cpu, BitOr(f1.value, Shl(f2.value, 8)))))

LDA_immediate(c) ==
    With(fetch_byte(c), LAMBDA f :
        IF f.raised THEN f
        ELSE With(SetReg(f.cpu, "A", f.value), LAMBDA c1 :
            Ret(update_flags(c1, f.value), 2)))

LDA_absolute(c) ==
    With(fetch_addr(c), LAMBDA f :
        IF f.raised THEN f
        ELSE With(read_byte(f.cpu, f.value), LAMBDA r :
            IF r.raised THEN r
            ELSE With(SetReg(r.cpu, "A", r.value), LAMBDA c1 :
                Ret(update_flags(c1, r.value), 4))))

(* Mutant: the store writes register X instead of A *)
STA_absolute_StoresX(c) ==
    With(fetch_addr(c), LAMBDA f :
        IF f.raised THEN f
        ELSE With(write_byte(f.cpu, f.value, f.cpu.registers.X), LAMBDA w :
            IF w.raised THEN w ELSE Ret(w.cpu, 4)))

STA_absolute(c) ==
    With(fetch_addr(c), LAMBDA f :
        IF f.raised THEN f
        ELSE With(write_byte(f.cpu, f.value, f.cpu.registers.A), LAMBDA w :
            IF w.raised THEN w ELSE Ret(w.cpu, 4)))

JMP_absolute(c) ==
    With(fetch_addr(c), LAMBDA f :
        IF f.raised THEN f
        ELSE Ret(SetReg(f.cpu, "PC", f.value), 3))

NOP(c) == Ret(c, 2)

BRK(c) == Ret([c EXCEPT !.running = FALSE], 7)

(* self.opcodes[opcode]() *)
Dispatch(c, opcode) ==
    CASE opcode = OP_LDA_IMM -> LDA_immediate(c)
      [] opcode = OP_LDA_ABS -> LDA_absolute(c)
      [] opcode = OP_STA_ABS -> STA_absolute(c)
      [] opcode = OP_JMP_ABS -> JMP_absolute(c)
      [] opcode = OP_NOP -> NOP(c)
      [] opcode = OP_BRK -> BRK(c)

(* Mutant: an opcode without a handler is not fetched past (PC stays) *)
execute_UnknownKeepsPC(c) ==
    With(fetch_byte(c), LAMBDA f :
        IF f.raised THEN f
        ELSE IF f.value \in Opcodes
        THEN With(Dispatch(f.cpu, f.value), LAMBDA h :
                 IF h.raised THEN h
                 ELSE Ret([h.cpu EXCEPT !.clock_cycles = @ + h.value], h.value))
        ELSE Ret(c, 0))

execute(c) ==
    With(fetch_byte(c), LAMBDA f :
        IF f.raised THEN f
        ELSE IF f.value \in Opcodes
        THEN With(Dispatch(f.cpu, f.value), LAMBDA h :
                 IF h.raised THEN h
                 ELSE Ret([h.cpu EXCEPT !.clock_cycles = @ + h.value], h.value))
        ELSE Ret(f.cpu, 0))

----------------------------------------------------------------------------
(* class SNESEmulator: the test program and the frame scheduler *)

DemoProgram ==
    <<169, 1,
      141, 0, 32,
      169, 63,
      141, 6, 32,
      169, 0,
      141, 6, 32,
      76, 0, 128>>

(* for i, byte in enumerate(program): self.cpu.memory[origin + i] = byte *)
RECURSIVE LoadProgram(_, _, _, _)
LoadProgram(m, program, origin, i) ==
    IF i > Len(program) THEN m
    ELSE With(MemSet(m, origin + i - 1, program[i]), LAMBDA m1 :
             LoadProgram(m1, program, origin, i + 1))

(* The PPU part of setup_test_environment: the test pattern in the first
   two bytes of each of the 256 tiles, the palette, then the tile map *)
TileCount == 256
PLANE0_PATTERN == 170
PLANE1_PATTERN == 85
TileMapBase == 4096

(* for i in range(256): vram[i * 16] = 0xAA; vram[i * 16 + 1] = 0x55 *)
TestPattern ==
    [a \in {i * TileBytes : i \in 0 .. (TileCount - 1)}
           \cup {i * TileBytes + 1 : i \in 0 .. (TileCount - 1)} |->
        IF a % TileBytes = 0 THEN PLANE0_PATTERN ELSE PLANE1_PATTERN]

TestPalette == 0 :> Black @@ 1 :> Red @@ 2 :> Green @@ 3 :> Blue

(* for y in range(28): for x in range(32):
       vram[0x1000 + y * 32 + x] = (x + y) % 256 *)
TileMap ==
    [a \in {TileMapBase + y * ScreenCols + x :
                y \in 0 .. (ScreenRows - 1), x \in 0 .. (ScreenCols - 1)} |->
        (((a - TileMapBase) % ScreenCols) + ((a - TileMapBase) \div ScreenCols)) % 256]

(* The bytes the two loops leave in the cells they write (the tile map is
   written last), the cells left non-zero and the cells left zero *)
SetupWrites == TileMap @@ TestPattern
SetupCellsSet == {a \in DOMAIN SetupWrites : SetupWrites[a] # 0}
SetupCellsCleared == {a \in DOMAIN SetupWrites : SetupWrites[a] = 0}

setup_test_environment_ppu(p) ==
    With(p.vram, LAMBDA v :
        [vram |-> [a \in ((DOMAIN v) \cup SetupCellsSet) \ SetupCellsCleared |->
                       IF a \in SetupCellsSet THEN SetupWrites[a] ELSE v[a]],
         palette |-> TestPalette])

(* The CPU part of setup_test_environment (the PPU part does not touch it) *)
setup_test_environment(c) ==
    With(LoadProgram(c.memory, DemoProgram, BootPC, 1), LAMBDA m :
        write_word([c EXCEPT !.memory = m], ResetVector, BootPC).cpu)

(* while cycles < target_cycles and self.cpu.running:
       cycles += self.cpu.execute()
   The loop state is the CPU, the local variable cycles, the number of
   execute() calls made so far and whether one of them raised. *)
LoopState(c, cycles, execs, raised) ==
    [cpu |-> c, cycles |-> cycles, execs |-> execs, raised |-> raised]

(* Mutant: the loop runs while cycles <= target_cycles *)
LoopExit_OffByOne(s) == s.raised \/ ~(s.cycles <= TargetCycles /\ s.cpu.running)

(* The loop has left: the condition is false, or execute() raised *)
LoopExit(s) == s.raised \/ ~(s.cycles < TargetCycles /\ s.cpu.running)

(* One iteration of the loop body *)
LoopBody(s) ==
    With(execute(s.cpu), LAMBDA r :
        IF r.raised
        THEN LoopState(r.cpu, s.cycles, s.execs + 1, TRUE)
        ELSE LoopState(r.cpu, s.cycles + r.value, s.execs + 1, FALSE))

(* Up to 2^k iterations, stopping at the loop's exit.  (Iterating by
   doubling keeps the evaluation depth logarithmic in the number of
   iterations; the iterations themselves are those of the while loop.) *)
RECURSIVE LoopIter(_, _)
LoopIter(s, k) ==
    IF LoopExit(s) THEN s
    ELSE IF k = 0 THEN LoopBody(s)
    ELSE With(LoopIter(s, k - 1), LAMBDA t : LoopIter(t, k - 1))

(* The whole loop: iterate until the exit, however long that takes *)
RECURSIVE LoopFrom(_, _)
LoopFrom(s, k) ==
    With(LoopIter(s, k), LAMBDA t :
        IF LoopExit(t) THEN t ELSE LoopFrom(t, k + 1))

BudgetLoop(c) ==
    With(LoopState(c, 0, 0, FALSE), LAMBDA s : LoopFrom(s, 0))

(* What one call did: the emulator fields afterwards and, for the
   properties, the number of execute() calls, the local variable cycles at
   the exit of the loop, the number of execute() calls made when
   render_frame was entered (-1: not called), whether root.after was
   called, whether the call raised. *)
Outcome(c, run, pend, execs, cycles, renderedAt, scheduled, raised) ==
    [cpu |-> c, running |-> run, pending |-> pend, execs |-> execs,
     cycles |-> cycles, renderedAt |-> renderedAt, scheduled |-> scheduled,
     raised |-> raised]

NoEffect(c, run, pend) == Outcome(c, run, pend, 0, 0, -1, FALSE, FALSE)

(* Mutant: run_frame does not return early when the emulator is paused *)
run_frame_NoPauseCheck(c, run, pend) ==
    With(BudgetLoop(c), LAMBDA l :
        IF l.raised
        THEN Outcome(l.cpu, run, pend, l.execs, l.cycles, -1, FALSE, TRUE)
        ELSE Outcome(l.cpu, run, pend + 1, l.execs, l.cycles, l.execs, TRUE, FALSE))

run_frame(c, run, pend) ==
    IF ~run THEN NoEffect(c, run, pend)
    ELSE With(BudgetLoop(c), LAMBDA l :
             IF l.raised
             THEN Outcome(l.cpu, run, pend, l.execs, l.cycles, -1, FALSE, TRUE)
             ELSE Outcome(l.cpu, run, pend + 1, l.execs, l.cycles, l.execs, TRUE, FALSE))

start(c, run, pend) ==
    IF ~run
    THEN With([c EXCEPT !.running = TRUE], LAMBDA c1 : run_frame(c1, TRUE, pend))
    ELSE NoEffect(c, run, pend)

stop(c, run, pend) ==
    IF run THEN NoEffect(c, FALSE, pend) ELSE NoEffect(c, run, pend)

(* Mutant: reset_emulator does not load the test environment *)
reset_emulator_NoSetup(c, run, pend) ==
    With(stop(c, run, pend), LAMBDA s :
        NoEffect(NewCPU, s.running, s.pending))

reset_emulator(c, run, pend) ==
    With(stop(c, run, pend), LAMBDA s :
        NoEffect(setup_test_environment(NewCPU), s.running, s.pending))

open_rom(c, run, pend) == reset_emulator(c, run, pend)

close_rom(c, run, pend) ==
    With(stop(c, run, pend), LAMBDA s :
        NoEffect(NewCPU, s.running, s.pending))

----------------------------------------------------------------------------
(* Bounds of the model *)

MaxPending == 2
MaxClock == 1400
MaxCpuClock == 12

----------------------------------------------------------------------------
(* The history record: the operation, the state it started from, and what
   it did. *)

Event(op, o) ==
    [op |-> op, pre |-> cpu, preRunning |-> running, prePending |-> pending,
     execs |-> o.execs, cycles |-> o.cycles, renderedAt |-> o.renderedAt,
     scheduled |-> o.scheduled, raised |-> o.raised, ret |-> 0]

Apply(op, outcome) ==
    \E o \in {outcome} :
        /\ cpu' = o.cpu
        /\ running' = o.running
        /\ pending' = o.pending
        /\ last' = Event(op, o)

InitEvent(c) ==
    [op |-> "init", pre |-> c, preRunning |-> FALSE, prePending |-> 0,
     execs |-> 0, cycles |-> 0, renderedAt |-> -1,
     scheduled |-> FALSE, raised |-> FALSE, ret |-> 0]

(* SNESEmulator.__init__ *)
Init ==
    /\ cpu = setup_test_environment(NewCPU)
    /\ ppu = setup_test_environment_ppu(NewPPU)
    /\ running = FALSE
    /\ pending = 0
    /\ last = InitEvent(cpu)

(* The user interface calls (menu and toolbar commands) *)
Start ==
    /\ ~running => (pending < MaxPending /\ cpu.clock_cycles < MaxClock)
    /\ Apply("start", start(cpu, running, pending))
    /\ UNCHANGED ppu

Stop ==
    /\ Apply("stop", stop(cpu, running, pending))
    /\ UNCHANGED ppu

(* reset_emulator and open_rom run setup_test_environment, which writes
   the CPU (part of the operators above) and the PPU *)
ResetEmulator ==
    /\ Apply("reset_emulator", reset_emulator(cpu, running, pending))
    /\ ppu' = setup_test_environment_ppu(ppu)

OpenRom ==
    /\ Apply("open_rom", open_rom(cpu, running, pending))
    /\ ppu' = setup_test_environment_ppu(ppu)

CloseRom ==
    /\ Apply("close_rom", close_rom(cpu, running, pending))
    /\ UNCHANGED ppu

(* A callback scheduled by root.after(delay, self.run_frame) fires *)
Tick ==
    /\ pending > 0
    /\ running => cpu.clock_cycles < MaxClock
    /\ Apply("tick", run_frame(cpu, running, pending - 1))
    /\ UNCHANGED ppu

Next == Start \/ Stop \/ ResetEmulator \/ OpenRom \/ CloseRom \/ Tick

Spec == Init /\ [][Next]_vars

----------------------------------------------------------------------------
(* The CPU on its own: a freshly constructed CPU object whose memory holds
   an arbitrary small image, driven by calls of execute() and reset(). *)

ByteVals == {0, 1, 66, 127, 128, 255}
AddrVals == {0, 768, 32768, 32769, 65532, 65535}
Origins == {32768, 65533, 65534, 65535}
ResetWords == {32768, 36864}

(* The two bytes write_word stores: value & 0xFF, (value >> 8) & 0xFF *)
Lo(a) == a % 256
Hi(a) == (a \div 256) % 256

Absolute(op) == {<<op, Lo(a), Hi(a)>> : a \in AddrVals}

(* The first instruction of the image: every opcode byte, known or not *)
FirstInstrs ==
    {<<OP_LDA_IMM, v>> : v \in ByteVals}
    \cup Absolute(OP_LDA_ABS) \cup Absolute(OP_STA_ABS) \cup Absolute(OP_JMP_ABS)
    \cup {<<b>> : b \in (0 .. 255) \ {OP_LDA_IMM, OP_LDA_ABS, OP_STA_ABS, OP_JMP_ABS}}

(* What follows it *)
SecondInstrs ==
    Absolute(OP_STA_ABS) \cup {<<OP_NOP>>, <<OP_LDA_IMM, 128>>}

(* The part of a program that fits below the top of memory *)
Fitting(program, origin) ==
    SubSeq(program, 1, IF origin + Len(program) > MemSize
                       THEN MemSize - origin ELSE Len(program))

(* JMP target, at the boot address *)
JmpTo(target) ==
    BootPC :> OP_JMP_ABS @@ (BootPC + 1) :> Lo(target) @@ (BootPC + 2) :> Hi(target)

(* A freshly constructed CPU (PC at the boot address) whose memory then
   receives the reset vector, the program at its origin and, when the
   origin is not the boot address, a JMP to it at the boot address. *)
ImageCPU(program, origin, word) ==
    With(write_word(NewCPU, ResetVector, word).cpu, LAMBDA c0 :
        With(LoadProgram(c0.memory, Fitting(program, origin), origin, 1), LAMBDA m :
            [c0 EXCEPT !.memory = IF origin = BootPC THEN m ELSE JmpTo(origin) @@ m]))

InitCPU ==
    /\ ppu = NewPPU
    /\ \E i1 \in FirstInstrs, i2 \in SecondInstrs, origin \in Origins, word \in ResetWords :
           cpu = ImageCPU(i1 \o i2, origin, word)
    /\ running = FALSE
    /\ pending = 0
    /\ last = InitEvent(cpu)

CallEvent(op, r) ==
    [op |-> op, pre |-> cpu, preRunning |-> running, prePending |-> pending,
     execs |-> 0, cycles |-> 0, renderedAt |-> -1,
     scheduled |-> FALSE, raised |-> r.raised, ret |-> r.value]

Call(op, result) ==
    \E r \in {result} :
        /\ cpu' = r.cpu
        /\ last' = CallEvent(op, r)
        /\ UNCHANGED <<running, pending, ppu>>

CpuExecute ==
    /\ cpu.clock_cycles < MaxCpuClock
    /\ Call("execute", execute(cpu))

CpuReset == Call("reset", reset(cpu))

NextCPU == CpuExecute \/ CpuReset

SpecCPU == InitCPU /\ [][NextCPU]_vars

----------------------------------------------------------------------------
(* The scheduler over a loaded program: the emulator as constructed, its
   CPU memory then filled by the loader with a run of NOPs (at the boot
   address, or at the top of memory behind a JMP), driven by start(),
   stop() and the timer. *)

NopsPerFrame == TargetCycles \div 2

NopRun(origin, n) == [a \in origin .. (origin + n - 1) |-> OP_NOP]

FrameImages ==
    {NopRun(BootPC, n) : n \in {NopsPerFrame - 1, NopsPerFrame, NopsPerFrame + 18,
                                2 * NopsPerFrame}}
    \cup {JmpTo(t) @@ NopRun(t, MemSize - t) :
              t \in {MemSize - 2 * NopsPerFrame, MemSize - 2 * NopsPerFrame + 1,
                     MemSize - 2 * NopsPerFrame + 2}}

InitFrame ==
    /\ ppu = setup_test_environment_ppu(NewPPU)
    /\ \E m \in FrameImages : cpu = [NewCPU EXCEPT !.memory = m]
    /\ running = FALSE
    /\ pending = 0
    /\ last = InitEvent(cpu)

NextFrame == Start \/ Stop \/ Tick

SpecFrame == InitFrame /\ [][NextFrame]_vars

----------------------------------------------------------------------------
(* update_flags on its own: every prior P and every byte value *)

InitFlags ==
    /\ ppu = NewPPU
    /\ \E p \in 0 .. 255 : cpu = SetReg(NewCPU, "P", p)
    /\ running = FALSE
    /\ pending = 0
    /\ \E v \in 0 .. 255 : last = [InitEvent(cpu) EXCEPT !.ret = v]

(* self.update_flags(value), value being the one drawn at the start *)
CallUpdateFlags ==
    /\ last.op = "init"
    /\ cpu' = update_flags(cpu, last.ret)
    /\ last' = [last EXCEPT !.op = "update_flags"]
    /\ UNCHANGED <<running, pending, ppu>>

NextFlags == CallUpdateFlags

SpecFlags == InitFlags /\ [][NextFlags]_vars

----------------------------------------------------------------------------
(* The budget loop of run_frame, one iteration per step.  The state of the
   loop is the CPU and the local variable cycles (kept in last.cycles,
   with last.raised telling that execute() raised and last.ret the cycles
   the latest execute() returned).  The number of calls made is not part
   of the loop's state: an iteration that changes neither the CPU nor
   cycles leaves the loop where it was. *)
MaxUnknownRun == 200

ImageAt(origin, program) == LoadProgram(EmptyMemory, program, origin, 1)

UnknownRun(origin, n, b) == [a \in origin .. (origin + n - 1) |-> b]

LoopImages ==
    {ImageAt(BootPC, DemoProgram),
     ImageAt(BootPC, <<OP_JMP_ABS, Lo(BootPC), Hi(BootPC)>>),
     ImageAt(BootPC, <<2, 3, 255, OP_JMP_ABS, Lo(BootPC), Hi(BootPC)>>),
     ImageAt(BootPC, <<2, 255, OP_LDA_IMM, 0, 3, OP_BRK>>),
     ImageAt(BootPC, <<OP_LDA_ABS, 0, 3, 255, OP_STA_ABS, 1, 3, 2,
                       OP_JMP_ABS, Lo(BootPC + 3), Hi(BootPC + 3)>>),
     NopRun(BootPC, NopsPerFrame + 18),
     JmpTo(MemSize - 20) @@ NopRun(MemSize - 20, 20),
     JmpTo(MemSize - MaxUnknownRun) @@ UnknownRun(MemSize - MaxUnknownRun, MaxUnknownRun, 255),
     JmpTo(MemSize - 1) @@ UnknownRun(MemSize - 1, 1, 2),
     UnknownRun(BootPC, MaxUnknownRun, 2)}

LoopNow == LoopState(cpu, last.cycles, 0, last.raised)

InitLoop ==
    /\ ppu = NewPPU
    /\ \E m \in LoopImages : cpu = [NewCPU EXCEPT !.memory = m]
    /\ running = TRUE
    /\ pending = 0
    /\ last = [InitEvent(cpu) EXCEPT !.op = "enter", !.preRunning = TRUE]

LoopStep ==
    /\ ~LoopExit(LoopNow)
    /\ \E t \in {LoopBody(LoopNow)} :
           /\ cpu' = t.cpu
           /\ last' = [op |-> "iterate", pre |-> cpu, preRunning |-> running,
                       prePending |-> pending, execs |-> 0, cycles |-> t.cycles,
                       renderedAt |-> -1, scheduled |-> FALSE,
                       raised |-> t.raised, ret |-> t.cycles - last.cycles]
    /\ UNCHANGED <<running, pending, ppu>>

NextLoop == LoopStep

(* The interpreter runs the loop body whenever the loop condition holds *)
SpecLoop == InitLoop /\ [][NextLoop]_vars /\ WF_vars(NextLoop)

----------------------------------------------------------------------------
(* render_frame, one screen cell per step, on several VRAM contents: the
   image setup_test_environment loads, a fresh PPU, a VRAM whose first
   4096 bytes are all 0xFF (every tile index 255, every colour index 3),
   and one whose first 4096 bytes run through all byte values (every tile
   index and every plane byte occurs).  last.n counts the cells done. *)
CellCount == ScreenRows * ScreenCols

PpuImages ==
    {setup_test_environment_ppu(NewPPU),
     NewPPU,
     [vram |-> [a \in 0 .. 4095 |-> 255], palette |-> TestPalette],
     [vram |-> [a \in {b \in 0 .. 4095 : (7 * b + 3) % 256 # 0} |-> (7 * a + 3) % 256],
      palette |-> TestPalette]}

(* self.canvas.delete("all") *)
InitPPU ==
    /\ ppu \in PpuImages
    /\ cpu = NewCPU
    /\ running = FALSE
    /\ pending = 0
    /\ last = [op |-> "render_frame", n |-> 0, cell |-> <<-1, -1>>, mapRead |-> -1,
               tile_idx |-> -1, tile |-> Painted({}, {}, {}, FALSE)]

(* for y in range(0, 28): for x in range(0, 32): the next cell *)
RenderCell ==
    /\ last.op \in {"render_frame", "cell"}
    /\ last.n < CellCount
    /\ ~last.tile.raised
    /\ \E r \in {render_cell(ppu, last.n \div ScreenCols, last.n % ScreenCols)} :
           last' = [op |-> "cell", n |-> last.n + 1, cell |-> r.cell,
                    mapRead |-> r.mapRead, tile_idx |-> r.tile_idx, tile |-> r.tile]
    /\ UNCHANGED <<cpu, running, pending, ppu>>

NextPPU == RenderCell

SpecPPU == InitPPU /\ [][NextPPU]_vars

----------------------------------------------------------------------------
(* render_tile on one tile, for every pair of plane bytes: the tile drawn
   is the last one (index 255) at the bottom right cell of the screen; its
   first row holds (plane0, plane1) = (p0, p1), its last row (p1, p0). *)
TileWith(tile_idx, p0, p1) ==
    With((tile_idx * TileBytes) :> p0 @@ (tile_idx * TileBytes + 1) :> p1
         @@ (tile_idx * TileBytes + 14) :> p1 @@ (tile_idx * TileBytes + 15) :> p0,
         LAMBDA f : [a \in {b \in DOMAIN f : f[b] # 0} |-> f[a]])

InitTile ==
    /\ \E p0 \in 0 .. 255, p1 \in 0 .. 255 :
           ppu = [vram |-> TileWith(255, p0, p1), palette |-> TestPalette]
    /\ cpu = NewCPU
    /\ running = FALSE
    /\ pending = 0
    /\ last = [op |-> "init", x |-> 248, y |-> 216, tile_idx |-> 255,
               tile |-> Painted({}, {}, {}, FALSE)]

CallRenderTile ==
    /\ last.op = "init"
    /\ \E r \in {render_tile(ppu, last.x, last.y, last.tile_idx)} :
           last' = [last EXCEPT !.op = "render_tile", !.tile = r]
    /\ UNCHANGED <<cpu, running, pending, ppu>>

NextTile == CallRenderTile

SpecTile == InitTile /\ [][NextTile]_vars

----------------------------------------------------------------------------
(* Vocabulary of the properties *)

Bit(x, i) == (x \div (2 ^ i)) % 2

Reg(c, r) == c.registers[r]

(* The byte at the PC a call of execute() started from *)
IsExecute == last.op = "execute"
PrePC == Reg(last.pre, "PC")
PreOpcode == MemGet(last.pre.memory, PrePC)

(* Two memories agree everywhere, except perhaps on the cells of S *)
SameMemoryExcept(m1, m2, S) ==
    \A a \in ((DOMAIN m1) \cup (DOMAIN m2)) \ S : MemGet(m1, a) = MemGet(m2, a)

----------------------------------------------------------------------------
(* C1: for an opcode byte with no handler, one execute() returns 0 and
   leaves all six registers (PC included), memory, the halted flag and the
   cycle counter unchanged.  This is the claim as stated; the code has
   already advanced PC past the opcode byte when it finds no handler. *)
C1_UnknownOpcodeChangesNothing ==
    (IsExecute /\ MemInRange(PrePC) /\ PreOpcode \notin Opcodes)
        => (last.ret = 0 /\ ~last.raised /\ cpu = last.pre)

(* C1 as amended: for an opcode byte with no handler, one execute() returns
   0, does not raise, adds 1 to PC (unmasked) and leaves A, X, Y, SP, P,
   memory, the halted flag and the cycle counter unchanged. *)
C1_UnknownOpcodeOnlyAdvancesPC ==
    (IsExecute /\ MemInRange(PrePC) /\ PreOpcode \notin Opcodes)
        => /\ last.ret = 0
           /\ ~last.raised
           /\ cpu = [last.pre EXCEPT !.registers.PC = @ + 1]

C1_Witness ==
    /\ IsExecute
    /\ PrePC = BootPC
    /\ PreOpcode = 255
    /\ Reg(cpu, "PC") = BootPC + 1

(* C2: for every memory content and every PC in 0..0xFFFF, execute()
   completes without raising (fetches wrap within the 64 KiB space). *)
C2_ExecuteNeverRaises ==
    (IsExecute /\ MemInRange(PrePC)) => ~last.raised

(* C3: in every state reached by execute() and reset() calls from a fresh
   CPU over any memory, A is in 0..0xFF and PC and SP are in 0..0xFFFF. *)
C3_RegistersInRange ==
    /\ Reg(cpu, "A") \in 0 .. 255
    /\ Reg(cpu, "PC") \in 0 .. 65535
    /\ Reg(cpu, "SP") \in 0 .. 65535

(* C6: JMP absolute (0x4C lo hi) executed from any PC in 0..0xFFFF sets PC
   to (hi<<8)|lo, the operand bytes being the two that follow the opcode in
   the 64 KiB space, returns 3 cycles and leaves A, X, Y, SP, P and memory
   unchanged; executed again at the same location it gives the same PC
   (the PC it sets depends on the operand bytes alone). *)
C6_JmpSetsPC ==
    (IsExecute /\ MemInRange(PrePC) /\ PreOpcode = OP_JMP_ABS)
        => LET lo == MemGet(last.pre.memory, (PrePC + 1) % MemSize)
               hi == MemGet(last.pre.memory, (PrePC + 2) % MemSize)
           IN  /\ ~last.raised
               /\ last.ret = 3
               /\ cpu = [last.pre EXCEPT !.registers.PC = hi * 256 + lo,
                                         !.clock_cycles = @ + 3]

----------------------------------------------------------------------------
(* C7: for every byte v and every prior P, update_flags(v) gives a P whose
   bit 1 is set iff v = 0, whose bit 7 is set iff bit 7 of v is set, and
   whose other bits are those of the prior P; nothing else changes. *)
C7_UpdateFlags ==
    last.op = "update_flags"
        => LET v == last.ret
               p0 == Reg(last.pre, "P")
               p == Reg(cpu, "P")
           IN  /\ (Bit(p, 1) = 1) <=> (v = 0)
               /\ (Bit(p, 7) = 1) <=> (v >= 128)
               /\ \A i \in {0, 2, 3, 4, 5, 6} : Bit(p, i) = Bit(p0, i)
               /\ p \in 0 .. 255
               /\ cpu = SetReg(last.pre, "P", p)

(* Both flags were set before, neither is afterwards *)
C7_Witness ==
    /\ last.op = "update_flags"
    /\ last.ret = 1
    /\ Reg(last.pre, "P") = 255
    /\ Reg(cpu, "P") = 125

----------------------------------------------------------------------------
(* C8: LDA immediate v followed by STA absolute a, two execute() calls of
   2 + 4 cycles, leaves memory[a] = v and A = v and changes no memory cell
   other than a.  Stated of two consecutive steps: last describes the LDA,
   last' the STA. *)
C8_Step ==
    LET v == MemGet(last.pre.memory, PrePC + 1)
        a == MemGet(cpu.memory, PrePC + 3) + 256 * MemGet(cpu.memory, PrePC + 4)
    IN  ( /\ IsExecute
          /\ PrePC + 4 < MemSize
          /\ PreOpcode = OP_LDA_IMM
          /\ MemGet(last.pre.memory, PrePC + 2) = OP_STA_ABS
          /\ last'.op = "execute" )
        => /\ ~last.raised /\ ~last'.raised
           /\ last.ret = 2 /\ last'.ret = 4
           /\ cpu'.clock_cycles = last.pre.clock_cycles + 6
           /\ MemGet(cpu'.memory, a) = v
           /\ Reg(cpu', "A") = v
           /\ SameMemoryExcept(cpu'.memory, last.pre.memory, {a})
           /\ Reg(cpu', "PC") = PrePC + 5

C8_LdaStaRoundTrip == [][C8_Step]_vars

(* LDA #$42 then STA $FFFC at the boot address: the store changed the low
   byte of the reset vector from 0 to 0x42 *)
C8_Witness ==
    /\ IsExecute
    /\ PreOpcode = OP_STA_ABS
    /\ PrePC = BootPC + 2
    /\ MemGet(last.pre.memory, BootPC) = OP_LDA_IMM
    /\ MemGet(last.pre.memory, BootPC + 1) = 66
    /\ last.pre.clock_cycles = 2
    /\ Reg(last.pre, "A") = 66
    /\ MemGet(last.pre.memory, 65532) = 0
    /\ MemGet(cpu.memory, 65532) = 66

----------------------------------------------------------------------------
(* Vocabulary of the scheduler properties *)

IsFrameCall == last.op \in {"tick", "start"}

(* The call entered the cycle-budget loop: run_frame found running true *)
RanFrame ==
    \/ last.op = "tick" /\ last.preRunning
    \/ last.op = "start" /\ ~last.preRunning

(* cpu.running was true when the loop was entered (start() has just set it) *)
LiveAtLoop == last.op = "start" \/ last.pre.running

(* The operations that replace the CPU object *)
RebuildsCPU(op) == op \in {"reset_emulator", "open_rom", "close_rom"}

----------------------------------------------------------------------------
(* C4: once BRK has executed and the CPU is halted, no operation other than
   one that rebuilds the CPU object calls execute() again or clears the
   halt: not a tick, not stop(), not start(). *)
C4_HaltedStep ==
    (~cpu.running /\ ~RebuildsCPU(last'.op))
        => (last'.execs = 0 /\ ~cpu'.running)

C4_NoExecuteAfterHaltUntilReset == [][C4_HaltedStep]_vars

(* C5: when the CPU halts during a frame, the scheduler becomes Stopped and
   that frame schedules no next tick: no tick callback is pending after a
   halt. *)
C5_HaltStopsScheduler ==
    (RanFrame /\ LiveAtLoop /\ ~cpu.running)
        => (~running /\ ~last.scheduled /\ pending = 0)

----------------------------------------------------------------------------
(* C10: while the scheduler is stopped (after stop(), with no start()
   since), nothing calls execute() or render_frame(): a tick that was
   already scheduled fires, finds running false, and returns having changed
   nothing and scheduled nothing.  stop() does not cut a cycle-budget loop
   short: every frame that entered the loop left it by the loop's own
   condition (budget reached, CPU halted) or by an exception, and rendered
   only after its last execute(). *)
C10_StopIsCooperative ==
    /\ (last.op # "start" /\ ~last.preRunning)
          => (last.execs = 0 /\ last.renderedAt = -1 /\ ~last.scheduled /\ ~running)
    /\ (last.op = "tick" /\ ~last.preRunning)
          => (cpu = last.pre /\ pending = last.prePending - 1)
    /\ (last.op = "stop")
          => (cpu = last.pre /\ pending = last.prePending /\ ~running
              /\ last.execs = 0 /\ last.renderedAt = -1 /\ ~last.scheduled)
    /\ RanFrame
          => /\ running
             /\ last.raised \/ last.cycles >= TargetCycles \/ ~cpu.running
             /\ ~last.raised => last.renderedAt = last.execs

(* The tick scheduled by a frame fired after stop() *)
C10_Witness ==
    /\ last.op = "tick"
    /\ ~last.preRunning
    /\ last.prePending = 1
    /\ pending = 0
    /\ cpu.clock_cycles >= TargetCycles

----------------------------------------------------------------------------
(* C9: with the scheduler running a CPU that has not halted, and the
   NopsPerFrame = floor(1364/2) = 682 bytes from PC on all NOP, one frame
   executes exactly 682 NOPs (PC advances by 682, the cycle counter by
   1364, nothing else changes) and calls render_frame only after the last
   of them. *)
NopFilled(m, pc, n) ==
    /\ pc + n <= MemSize
    /\ \A a \in pc .. (pc + n - 1) : MemGet(m, a) = OP_NOP

C9_NopFrame ==
    (RanFrame /\ LiveAtLoop /\ NopFilled(last.pre.memory, PrePC, NopsPerFrame))
        => /\ last.execs = NopsPerFrame
           /\ last.cycles = TargetCycles
           /\ ~last.raised
           /\ last.renderedAt = NopsPerFrame
           /\ last.scheduled
           /\ cpu = [last.pre EXCEPT !.registers.PC = @ + NopsPerFrame,
                                     !.clock_cycles = @ + TargetCycles,
                                     !.running = TRUE]

(* A timer tick (not the frame start() runs) executed the 682 NOPs that
   end at the top of memory *)
C9_Witness ==
    /\ last.op = "tick"
    /\ last.preRunning
    /\ NopFilled(last.pre.memory, PrePC, NopsPerFrame)
    /\ last.execs = NopsPerFrame
    /\ Reg(cpu, "PC") = MemSize
    /\ last.renderedAt = NopsPerFrame

----------------------------------------------------------------------------
(* C12: for every word w stored little-endian at 0xFFFC/0xFFFD, reset()
   sets PC to w and leaves A, X, Y, SP, P, the halted flag, the cycle
   counter and all of memory unchanged. *)
C12_ResetLoadsVector ==
    last.op = "reset"
        => LET lo == MemGet(last.pre.memory, ResetVector)
               hi == MemGet(last.pre.memory, ResetVector + 1)
           IN  /\ ~last.raised
               /\ cpu = [last.pre EXCEPT !.registers.PC = 256 * hi + lo]

(* reset() after LDA #$42; STA $FFFC at the boot address: the vector read
   is 0x8042, A holds 0x42 and the cycle counter 6 *)
C12_Witness ==
    /\ last.op = "reset"
    /\ MemGet(cpu.memory, ResetVector) = 66
    /\ MemGet(cpu.memory, ResetVector + 1) = 128
    /\ Reg(last.pre, "PC") = BootPC + 5
    /\ Reg(cpu, "PC") = BootPC + 66
    /\ Reg(cpu, "A") = 66
    /\ cpu.clock_cycles = 6

----------------------------------------------------------------------------
(* C17: under every interleaving of start(), stop(), reset_emulator() and
   timer firings, at most one run_frame callback is pending. *)
C17_AtMostOnePendingTick == pending <= 1

----------------------------------------------------------------------------
(* C19: from a freshly constructed CPU, after any sequence of execute()
   and reset() calls over any memory, P is one of 0x00, 0x02, 0x80 (Zero
   and Negative never both set, no other bit ever set), and X, Y and SP
   keep their initial values. *)
C19_FlagsAndIdleRegisters ==
    /\ Reg(cpu, "P") \in {0, FLAG_Z, FLAG_N}
    /\ Reg(cpu, "X") = 0
    /\ Reg(cpu, "Y") = 0
    /\ Reg(cpu, "SP") = StackTop

(* A load of 0x80 right after a load of 0: Zero was set, now only Negative *)
C19_Witness ==
    /\ IsExecute
    /\ PreOpcode = OP_LDA_IMM
    /\ Reg(last.pre, "P") = FLAG_Z
    /\ Reg(cpu, "P") = FLAG_N
    /\ Reg(cpu, "A") = 128

----------------------------------------------------------------------------
(* C18: whenever the budget loop of a frame is left, the cycles it has
   accumulated are at most 1370, and when the CPU is not halted at that
   point they lie in 1364..1367. *)
C18_CyclesAtLoopExit ==
    (RanFrame /\ LiveAtLoop)
        => /\ last.cycles <= TargetCycles + 6
           /\ cpu.running => last.cycles \in TargetCycles .. (TargetCycles + 3)

----------------------------------------------------------------------------
(* C16: for every memory content and start PC the budget loop of one
   frame terminates; each execute() call in it raises, or adds at least 2
   cycles, or adds none and moves PC forward by one. *)
LoopLeft == LoopExit(LoopNow)

C16_IterationProgress ==
    last'.op = "iterate"
        => \/ last'.raised
           \/ last'.ret >= 2
           \/ /\ last'.ret = 0
              /\ Reg(cpu', "PC") = Reg(cpu, "PC") + 1
              /\ Reg(cpu', "PC") <= MemSize

C16_BudgetLoopTerminates == [][C16_IterationProgress]_vars /\ <>LoopLeft

(* The loop over three unknown opcodes and a JMP back to them has used up
   the budget *)
C16_Witness ==
    /\ last.op = "iterate"
    /\ LoopLeft
    /\ ~last.raised
    /\ cpu.running
    /\ last.cycles >= TargetCycles
    /\ MemGet(cpu.memory, BootPC) \notin Opcodes
    /\ MemGet(cpu.memory, BootPC + 3) = OP_JMP_ABS

----------------------------------------------------------------------------
(* C11: after reset_emulator(), from whatever state it is called in, the
   scheduler is stopped, the CPU is not halted, its registers, cycle
   counter and memory are those of a freshly constructed emulator (PC =
   0x8000, SP = 0x1FF, A = X = Y = P = 0, the demo program at 0x8000, the
   reset vector 0x8000 at 0xFFFC), and VRAM and the palette hold the
   initial tile image. *)
FreshMemoryByte(a) ==
    IF a >= BootPC /\ a < BootPC + Len(DemoProgram) THEN DemoProgram[a - BootPC + 1]
    ELSE IF a = ResetVector THEN 0
    ELSE IF a = ResetVector + 1 THEN 128
    ELSE 0

FreshVramByte(a) ==
    IF a >= 0 /\ a < 4096
    THEN (IF a % 16 = 0 THEN 170 ELSE IF a % 16 = 1 THEN 85 ELSE 0)
    ELSE IF a >= 4096 /\ a < 4096 + 28 * 32
    THEN (((a - 4096) % 32) + ((a - 4096) \div 32)) % 256
    ELSE 0

FreshVram == [a \in {b \in 0 .. (VramSize - 1) : FreshVramByte(b) # 0} |-> FreshVramByte(a)]

C11_ResetRestoresInitialState ==
    last.op = "reset_emulator"
        => /\ ~running
           /\ cpu.running
           /\ cpu.registers = [A |-> 0, X |-> 0, Y |-> 0, SP |-> 511, PC |-> 32768, P |-> 0]
           /\ cpu.clock_cycles = 0
           /\ \A a \in (DOMAIN cpu.memory) \cup (BootPC .. (BootPC + 20))
                        \cup {ResetVector, ResetVector + 1} :
                  MemGet(cpu.memory, a) = FreshMemoryByte(a)
           /\ ppu.vram = FreshVram
           /\ ppu.palette = (0 :> <<0, 0, 0>> @@ 1 :> <<255, 0, 0>>
                             @@ 2 :> <<0, 255, 0>> @@ 3 :> <<0, 0, 255>>)

(* reset_emulator() called while the scheduler is running on a halted CPU
   whose memory is empty (the ROM was closed and the BRK at 0x8000 ran) *)
C11_Witness ==
    /\ last.op = "reset_emulator"
    /\ last.preRunning
    /\ ~last.pre.running
    /\ last.pre.memory = EmptyMemory
    /\ last.pre.clock_cycles > 0
    /\ cpu.memory # EmptyMemory

----------------------------------------------------------------------------
(* C13: for each screen cell (row, col), taken in row-major order,
   render_frame reads the tile index at tile-map base + row * 32 + col,
   the cell the loader fills (0x1000 + y * 32 + x), and that cell is not
   one of the tile-pattern bytes (tile_index * 16 .. tile_index * 16 + 15). *)
C13_ReadsLoaderTileMap ==
    last.op = "cell"
        => /\ last.cell = <<(last.n - 1) \div 32, (last.n - 1) % 32>>
           /\ last.mapRead = 4096 + last.cell[1] * 32 + last.cell[2]
           /\ last.mapRead \in DOMAIN TileMap
           /\ \A t \in 0 .. 255 : last.mapRead \notin (t * 16) .. (t * 16 + 15)

----------------------------------------------------------------------------
(* C14: for every pair of plane bytes of a tile row and every column col
   (bit = 7 - col) render_tile computes the colour index
   2 * bit(plane1) + bit(plane0), paints exactly one pixel at
   (tile_x + col, tile_y + row) with palette[colour index] when the index
   is not 0 and nothing when it is 0; for plane0 = 0xAA, plane1 = 0x55 the
   indices from the most significant bit down are 1,2,1,2,1,2,1,2. *)
TilePlane(k, row) == MemGet(ppu.vram, last.tile_idx * 16 + 2 * row + k)

ExpectedIndex(row, col) ==
    2 * Bit(TilePlane(1, row), 7 - col) + Bit(TilePlane(0, row), 7 - col)

C14_TileDecoding ==
    last.op = "render_tile"
        => /\ ~last.tile.raised
           /\ \A row \in 0 .. 7, col \in 0 .. 7 :
                  /\ color_idx(TilePlane(0, row), TilePlane(1, row), 7 - col)
                         = ExpectedIndex(row, col)
                  /\ ExpectedIndex(row, col) \in 0 .. 3
                  /\ {px \in last.tile.pixels :
                          px[1] = last.x + col /\ px[2] = last.y + row}
                         = IF ExpectedIndex(row, col) = 0 THEN {}
                           ELSE {<<last.x + col, last.y + row,
                                   ppu.palette[ExpectedIndex(row, col)]>>}
           /\ \A px \in last.tile.pixels :
                  px[1] \in last.x .. (last.x + 7) /\ px[2] \in last.y .. (last.y + 7)
           /\ (TilePlane(0, 0) = 170 /\ TilePlane(1, 0) = 85)
                  => [col \in 0 .. 7 |-> color_idx(170, 85, 7 - col)]
                         = [col \in 0 .. 7 |-> IF col % 2 = 0 THEN 1 ELSE 2]

(* The test pattern's row: red and green pixels alternate in the first
   row, green and red in the last *)
C14_Witness ==
    /\ last.op = "render_tile"
    /\ TilePlane(0, 0) = 170
    /\ TilePlane(1, 0) = 85
    /\ <<last.x, last.y, <<255, 0, 0>>>> \in last.tile.pixels
    /\ <<last.x + 1, last.y, <<0, 255, 0>>>> \in last.tile.pixels
    /\ <<last.x, last.y + 7, <<0, 255, 0>>>> \in last.tile.pixels
    /\ Cardinality(last.tile.pixels) = 16

----------------------------------------------------------------------------
(* C15: for every VRAM content, render_frame reads VRAM only at indices
   0..0x7FFF and indexes the palette only inside it: the tile-map read,
   the tile-pattern reads (tile_index * 16 + 2 * row and the byte after
   it) and the palette lookups are all in range. *)
C15_RenderIndicesInRange ==
    last.op = "cell"
        => /\ ~last.tile.raised
           /\ last.mapRead \in 0 .. 32767
           /\ last.tile_idx \in 0 .. 255
           /\ last.tile.reads
                  = UNION {{last.tile_idx * 16 + 2 * row, last.tile_idx * 16 + 2 * row + 1} :
                               row \in 0 .. 7}
           /\ last.tile.reads \subseteq 0 .. 32767
           /\ last.tile.lookups \subseteq 0 .. (Cardinality(DOMAIN ppu.palette) - 1)

(* A cell of tile 255 whose rows are all 0xFF: the last pattern byte read
   is 4095 and every pixel takes palette entry 3 *)
C15_Witness ==
    /\ last.op = "cell"
    /\ last.tile_idx = 255
    /\ 4095 \in last.tile.reads
    /\ last.tile.lookups = {3}
    /\ Cardinality(last.tile.pixels) = 64
    /\ Cardinality(DOMAIN ppu.palette) = 4

====
